---- MODULE Spec2Model ----
(***************************************************************************)
(* git-author-rewrite: the top-level run (cli::entry), the rebase loop     *)
(* (cli::run_rebase_loop), the sequence-editor mode and the todo           *)
(* transformer (sequence_editor::rewrite / transform_line).                *)
(*                                                                         *)
(* Text is modelled as a sequence of one-character strings, so that        *)
(* trimming, prefix tests, splitting into lines and joining are computed   *)
(* as the code computes them.                                              *)
(***************************************************************************)
EXTENDS Integers, Sequences, FiniteSets, TLC

(* ---------------------------- bounds ----------------------------------- *)
\* longest leading whitespace of a generated todo line
MaxIndent == 2
\* most lines of a generated todo file
MaxLines == 2
\* most commits in the repository being rewritten
MaxCommits == 2
\* longest string typed at a prompt / stored in git config
MaxStr == 2
\* longest executable path handed to build_sequence_editor_env on its own
MaxPath == 3

(* ---------------------------- text helpers ----------------------------- *)
SP == " "
TAB == "\t"
NL == "\n"
CR == "\r"

\* char::is_whitespace restricted to the characters of the model
IsWhitespace(c) == c \in {SP, TAB, NL, CR}

\* all sequences over S of length at most n
SeqUpTo(S, n) == UNION {[1..k -> S] : k \in 0..n}

RECURSIVE Concat(_)
\* concatenation of a sequence of sequences
Concat(ss) == IF ss = <<>> THEN <<>> ELSE Head(ss) \o Concat(Tail(ss))

\* str::starts_with
StartsWith(s, p) == Len(s) >= Len(p) /\ SubSeq(s, 1, Len(p)) = p

RECURSIVE trim_start(_)
\* str::trim_start
trim_start(s) ==
    IF s # <<>> /\ IsWhitespace(Head(s)) THEN trim_start(Tail(s)) ELSE s

RECURSIVE trim_end(_)
\* str::trim_end
trim_end(s) ==
    IF s # <<>> /\ IsWhitespace(s[Len(s)])
    THEN trim_end(SubSeq(s, 1, Len(s) - 1))
    ELSE s

\* str::trim
trim(s) == trim_end(trim_start(s))

\* position of the first "\n" of s, 0 when there is none
FirstNL(s) ==
    IF \E i \in 1..Len(s) : s[i] = NL
    THEN CHOOSE i \in 1..Len(s) : s[i] = NL /\ \A j \in 1..(i - 1) : s[j] # NL
    ELSE 0

\* strip one trailing "\r" (only applied to a line that ended in "\n")
StripCR(s) ==
    IF s # <<>> /\ s[Len(s)] = CR THEN SubSeq(s, 1, Len(s) - 1) ELSE s

RECURSIVE lines(_)
\* str::lines: split at "\n" or "\r\n"; a final line without "\n" is kept
\* as it is; the empty string has no lines
lines(s) ==
    IF s = <<>> THEN <<>>
    ELSE LET i == FirstNL(s) IN
         IF i = 0 THEN <<s>>
         ELSE <<StripCR(SubSeq(s, 1, i - 1))>> \o lines(SubSeq(s, i + 1, Len(s)))

RECURSIVE join(_, _)
\* [String]::join(sep)
join(ls, sep) ==
    IF ls = <<>> THEN <<>>
    ELSE IF Len(ls) = 1 THEN ls[1]
    ELSE ls[1] \o sep \o join(Tail(ls), sep)

(* ---------------------------- todo transformer ------------------------- *)
PICK_SP == <<"p", "i", "c", "k", SP>>
EDIT_SP == <<"e", "d", "i", "t", SP>>
HASH == <<"#">>

\* transform_line building its result from the trimmed line only: the
\* indentation is lost
transform_line_no_indent(line) ==
    LET trimmed == trim_start(line) IN
    IF StartsWith(trimmed, HASH) THEN line
    ELSE IF StartsWith(trimmed, PICK_SP)
         THEN EDIT_SP \o SubSeq(trimmed, 6, Len(trimmed))
         ELSE line

\* transform_line testing the untrimmed line: only unindented picks change
transform_line_untrimmed(line) ==
    IF StartsWith(line, HASH) THEN line
    ELSE IF StartsWith(line, PICK_SP)
         THEN EDIT_SP \o SubSeq(line, 6, Len(line))
         ELSE line

\* transform_line testing for the keyword without the space after it
transform_line_no_space(line) ==
    LET trimmed == trim_start(line) IN
    IF StartsWith(trimmed, HASH) THEN line
    ELSE IF StartsWith(trimmed, <<"p", "i", "c", "k">>)
         THEN LET indent_len == Len(line) - Len(trimmed)
                  indent == SubSeq(line, 1, indent_len)
              IN indent \o EDIT_SP \o SubSeq(trimmed, 6, Len(trimmed))
         ELSE line

\* a transformer that drops the keyword of a pick line
transform_line_drop_keyword(line) ==
    LET trimmed == trim_start(line) IN
    IF StartsWith(trimmed, HASH) THEN line
    ELSE IF StartsWith(trimmed, PICK_SP)
         THEN LET indent_len == Len(line) - Len(trimmed)
                  indent == SubSeq(line, 1, indent_len)
              IN indent \o SubSeq(trimmed, 6, Len(trimmed))
         ELSE line

\* sequence_editor::transform_line
transform_line(line) ==
    LET trimmed == trim_start(line) IN
    IF StartsWith(trimmed, HASH) THEN line
    ELSE IF StartsWith(trimmed, PICK_SP)
         THEN LET indent_len == Len(line) - Len(trimmed)
                  indent == SubSeq(line, 1, indent_len)
              IN indent \o EDIT_SP \o SubSeq(trimmed, 6, Len(trimmed))
         ELSE line

\* the content written back without the final newline
transformed_no_final_newline(body) ==
    LET ls == lines(body) IN
    join([i \in 1..Len(ls) |-> transform_line(ls[i])], <<NL>>)

\* the content rewrite() writes back: lines().map(transform_line).join("\n") + "\n"
transformed(body) ==
    LET ls == lines(body) IN
    join([i \in 1..Len(ls) |-> transform_line(ls[i])], <<NL>>) \o <<NL>>

(* ---------------------------- pure helpers of the run ------------------ *)
\* should_exit_no_change comparing the values as typed, without trimming
should_exit_no_change_untrimmed(n, e, dn, de) == n = dn /\ e = de

\* a no-change test satisfied by either pair
should_exit_no_change_either(n, e, dn, de) == trim(n) = trim(dn) \/ trim(e) = trim(de)

\* cli::should_exit_no_change
should_exit_no_change(n, e, dn, de) == trim(n) = trim(dn) /\ trim(e) = trim(de)

\* an author string without the angle brackets
author_string_no_brackets(n, e) == n \o <<SP>> \o e

\* format!("{} <{}>", name, email)
author_string(n, e) == n \o <<SP, "<">> \o e \o <<">">>

\* rebase_in_progress looking at rebase-apply only
rebase_in_progress_apply_only(merge, apply) == apply

\* rebase_in_progress requiring both sentinels
rebase_in_progress_both(merge, apply) == merge /\ apply

\* git::rebase_in_progress, on the two sentinel entries of the git directory
rebase_in_progress(merge, apply) ==
    IF merge THEN TRUE ELSE (IF apply THEN TRUE ELSE FALSE)

QUOTE == "\""

\* a byte that is not valid UTF-8, and U+FFFD which replaces it
BAD_BYTE == "0xFF"
REPLACEMENT == "U+FFFD"

SEQ_FLAG == <<SP, "-", "-", "s", "e", "q", "u", "e", "n", "c", "e", "-",
             "e", "d", "i", "t", "o", "r">>

\* git.rs 288: Path::to_string_lossy
to_string_lossy(path) ==
    [i \in DOMAIN path |-> IF path[i] = BAD_BYTE THEN REPLACEMENT ELSE path[i]]

\* an editor command that quotes every path
build_sequence_editor_env_always_quoted(exe_path) ==
    (<<QUOTE>> \o exe_path \o <<QUOTE>>) \o SEQ_FLAG

\* git.rs 24-32: the value of GIT_SEQUENCE_EDITOR for an executable path
build_sequence_editor_env(exe_path) ==
    LET quoted == IF \E i \in DOMAIN exe_path : exe_path[i] = SP
                  THEN <<QUOTE>> \o exe_path \o <<QUOTE>>
                  ELSE exe_path
    IN quoted \o SEQ_FLAG

\* a rebase start that overrides the editor in both modes
child_env_always(auto, se, own) == se

\* git.rs 283-297: GIT_SEQUENCE_EDITOR of the spawned git; cmd.env() is only
\* called in auto mode, otherwise the child inherits this process's value
child_env(auto, se, own) == IF auto THEN se ELSE own

\* the flag handed over inverted
auto_mark_all_inverted(manual_mode) == manual_mode

\* cli.rs 335: let auto_mark_all = !manual_mode
auto_mark_all(manual_mode) == ~manual_mode

\* Result values of entry()
Ok(c) == [ok |-> TRUE, code |-> c]
Err == [ok |-> FALSE, code |-> 0]

\* main exiting with the code of the result whatever the result is
main_code_only(r) == r.code

\* main: Ok(code) => exit(code), Err(_) => exit(1)
main(r) == IF r.ok THEN r.code ELSE 1

(* ---------------------------- the git side ----------------------------- *)
Digits == <<"1", "2", "3", "4", "5", "6", "7", "8", "9">>

\* the todo list git writes for n commits: one "pick <commit>" line each
GitTodo(n) == Concat([i \in 1..n |-> PICK_SP \o <<Digits[i]>> \o <<NL>>])

\* the todo list after a user's own editor marked the commits of E as edit
UserTodo(n, E) ==
    Concat([i \in 1..n |->
        (IF i \in E THEN EDIT_SP ELSE PICK_SP) \o <<Digits[i]>> \o <<NL>>])

\* git's reading of one todo line: command word and commit
TodoItem(l) ==
    LET t == trim_start(l) IN
    [cmd |-> SubSeq(t, 1, IF Len(t) < 4 THEN Len(t) ELSE 4),
     commit |-> IF Len(t) >= 6 /\ \E i \in 1..Len(Digits) : Digits[i] = t[6]
                THEN CHOOSE i \in 1..Len(Digits) : Digits[i] = t[6]
                ELSE 0]

\* git's reading of the todo file: comment and blank lines are skipped
ParseTodo(content) ==
    LET ls == lines(content)
        keep == SelectSeq(ls, LAMBDA l :
                    trim_start(l) # <<>> /\ ~StartsWith(trim_start(l), HASH))
    IN [i \in 1..Len(keep) |-> TodoItem(keep[i])]

\* index of the first edit item of a todo list, 0 when there is none
FirstEdit(td) ==
    IF \E i \in 1..Len(td) : td[i].cmd = <<"e", "d", "i", "t">>
    THEN CHOOSE i \in 1..Len(td) :
            /\ td[i].cmd = <<"e", "d", "i", "t">>
            /\ \A j \in 1..(i - 1) : td[j].cmd # <<"e", "d", "i", "t">>
    ELSE 0

\* git replays the todo list up to and including its first edit item and
\* stops there with the sentinel directory in place; with no edit item left
\* it replays everything and removes the sentinel directory
GitAdvance(td, hd) ==
    LET i == FirstEdit(td) IN
    IF i = 0
    THEN [stopped |-> FALSE, todo |-> <<>>,
          head |-> IF td = <<>> THEN hd ELSE td[Len(td)].commit]
    ELSE [stopped |-> TRUE, todo |-> SubSeq(td, i + 1, Len(td)),
          head |-> td[i].commit]

(* ---------------------------- input sets ------------------------------- *)
\* what a user can type at the name prompt
InputStrings == SeqUpTo({SP, "a"}, MaxStr)

\* what `git config --get user.name` can print, trimmed by run_output
ConfigValues == {s \in InputStrings : trim(s) = s}

\* what a user can type at the email prompt
InputEmails == {<<"b">>, <<"b", SP>>, <<"c">>}

\* what `git config --get user.email` can print; empty when the key is unset
ConfigEmails == {<<>>, <<"b">>}

\* the author of every commit before the run
OldAuthor == <<"o">>

\* paths current_exe() may return: without a space, with a space, not UTF-8
ExePaths == {<<"/", "g">>, <<"/", "a", SP, "g">>, <<"/", BAD_BYTE>>}

Indents == SeqUpTo({SP, TAB}, MaxIndent)

Heads == {PICK_SP, <<"p", "i", "c", "k">>, <<"p", "i", "c", "k", TAB>>,
          <<"p", "i", "c", "k", "s", SP>>, EDIT_SP, <<"e", "x", "e", "c", SP>>,
          HASH, <<"#", SP, "p", "i", "c", "k", SP>>, <<>>}

Tails == {<<>>, <<"a">>, <<"a", SP>>, PICK_SP \o <<"b">>, <<"a", CR>>}

\* the lines transform_line is applied to
TodoLines == {i \o h \o t : i \in Indents, h \in Heads, t \in Tails}

\* the lines todo files are built from
FileLines == {PICK_SP \o <<"a">>, <<SP>> \o PICK_SP \o <<"b">>,
              <<TAB>> \o EDIT_SP \o <<"c">>, <<"#", SP>> \o PICK_SP \o <<"d">>,
              <<"e", "x", "e", "c", SP, "t">>, <<"p", "i", "c", "k">>, <<>>,
              PICK_SP \o <<"a", CR>>}

\* line terminators of the last line of a file: none, "\n", "\r\n"
Terminators == {<<>>, <<NL>>, <<CR, NL>>}

\* the todo files rewrite() is applied to
TodoFiles ==
    {join(ls, <<NL>>) \o t : ls \in SeqUpTo(FileLines, MaxLines), t \in Terminators}

(* ---------------------------- state ------------------------------------ *)
VARIABLES
    args,           \* the command line: help, version, seq ("none", "nopath", "path"), manual
    pc,             \* position of the process in entry() / rewrite()
    exit,           \* process exit code, -1 while running
    outcome,        \* the return site of entry() that ended the run
    msgs,           \* messages printed so far
    cfg,            \* git config: user.name, user.email
    cfg0,           \* git config before the run
    default_name, default_email, name, email,   \* locals of entry()
    author,         \* the author string handed to the loop
    authors,        \* author of each commit
    todo,           \* git's remaining rebase todo list
    head,           \* the commit git stopped at
    rebase_merge, rebase_apply,  \* sentinel directories under the git dir
    amended,        \* commits amended so far, in order
    trace,          \* steps taken: [op, ok, arg]
    todo_file,      \* the file given to --sequence-editor: [exists, content]
    file0,          \* that file before the run
    body,           \* rewrite(): the content read
    line, line_out, \* argument and result of transform_line
    envs,           \* GIT_SEQUENCE_EDITOR as the command of each step sees it, <<>> when unset
    exe,            \* the path std::env::current_exe() returned
    proc_env,       \* GIT_SEQUENCE_EDITOR in this process's own environment, <<>> when unset
    fn_in, fn_out,  \* argument and result of a function applied on its own
    children,       \* the child processes run_status started, in spawn order
    editor          \* the sequence editor git started: "none", "running", "done", "failed"

vars == <<args, pc, exit, outcome, msgs, cfg, cfg0, default_name, default_email,
          name, email, author, authors, todo, head, rebase_merge, rebase_apply, amended,
          trace, todo_file, file0, body, line, line_out, envs, exe, proc_env,
          fn_in, fn_out, children, editor>>

repo_vars == <<authors, todo, head, rebase_merge, rebase_apply, amended>>
local_vars == <<default_name, default_email, name, email, author>>
file_vars == <<todo_file, file0, body>>
line_vars == <<line, line_out>>
pure_vars == <<fn_in, fn_out>>
proc_vars == <<children, editor>>
env_vars == <<exe, proc_env>>

Ev(op, ok, arg) == [op |-> op, ok |-> ok, arg |-> arg]
\* a step whose command, if it runs one, inherits this process's environment
Log(op, ok, arg) ==
    /\ trace' = Append(trace, Ev(op, ok, arg))
    /\ envs' = Append(envs, proc_env)

\* a step whose command sees GIT_SEQUENCE_EDITOR as env
LogEnv(op, ok, arg, env) ==
    /\ trace' = Append(trace, Ev(op, ok, arg))
    /\ envs' = Append(envs, env)

\* no function is applied on its own
NoCall == [fn |-> "none", arg |-> <<>>]


\* entry() returns r from the return site named label; main exits
Return(r, label) ==
    /\ pc' = "done"
    /\ exit' = main(r)
    /\ outcome' = label

Running(at) == pc = at /\ exit = -1

\* progress checks made so far
NumChecks == Cardinality({i \in DOMAIN trace : trace[i].op = "check"})

(* ---------------------------- initial states --------------------------- *)
ArgSets == [help : BOOLEAN, version : BOOLEAN,
            seq : {"none", "nopath", "path"}, manual : BOOLEAN]

IsRunMode(a) == ~a.help /\ ~a.version /\ a.seq = "none"
IsSeqMode(a) == ~a.help /\ ~a.version /\ a.seq # "none"

NoFile == [exists |-> FALSE, content |-> <<>>]

\* the parts of the state that are the same in every initial state
InitCommon ==
    /\ exit = -1
    /\ outcome = "none"
    /\ msgs = {}
    /\ cfg0 = cfg
    /\ default_name = <<>> /\ default_email = <<>>
    /\ name = <<>> /\ email = <<>>
    /\ author = <<>>
    /\ todo = <<>>
    /\ head = 0
    /\ amended = <<>>
    /\ trace = <<>>
    /\ file0 = todo_file
    /\ body = <<>>
    /\ line_out = <<>>
    /\ envs = <<>>
    /\ exe = <<>>
    /\ proc_env = <<>>
    /\ fn_out = <<>>
    /\ children = <<>>
    /\ editor = "none"

Init ==
    /\ args \in ArgSets
    /\ line = <<>>
    /\ fn_in = NoCall
    /\ IF IsRunMode(args)
       THEN /\ cfg \in [name : ConfigValues, email : ConfigEmails]
            /\ \E n \in 1..MaxCommits : authors = [i \in 1..n |-> OldAuthor]
            \* a sentinel directory may be left over from an earlier rebase
            /\ \E stale \in {<<FALSE, FALSE>>, <<TRUE, FALSE>>, <<FALSE, TRUE>>} :
                   rebase_merge = stale[1] /\ rebase_apply = stale[2]
       ELSE /\ cfg = [name |-> <<"a">>, email |-> <<"b">>]
            /\ authors = <<OldAuthor>>
            /\ rebase_merge = FALSE /\ rebase_apply = FALSE
    /\ IF IsSeqMode(args) /\ args.seq = "path" /\ ~args.manual
       THEN todo_file \in {NoFile} \cup [exists : {TRUE}, content : TodoFiles]
       ELSE todo_file = NoFile
    /\ InitCommon
    /\ pc = "entry"

(* ---------------------------- entry(): flags ---------------------------- *)
\* cli.rs 268-271: --help / -h anywhere on the command line
EntryHelp ==
    /\ Running("entry")
    /\ args.help
    /\ msgs' = msgs \cup {"help"}
    /\ Return(Ok(0), "help")
    /\ UNCHANGED <<args, cfg, cfg0, local_vars, repo_vars, trace, envs, file_vars, line_vars, pure_vars, proc_vars, env_vars>>

\* cli.rs 274-277: --version / -V
EntryVersion ==
    /\ Running("entry")
    /\ ~args.help /\ args.version
    /\ msgs' = msgs \cup {"version"}
    /\ Return(Ok(0), "version")
    /\ UNCHANGED <<args, cfg, cfg0, local_vars, repo_vars, trace, envs, file_vars, line_vars, pure_vars, proc_vars, env_vars>>

\* a sequence-editor entry that goes on to the file without a path
EntrySequenceEditor_unchecked_path ==
    /\ Running("entry")
    /\ IsSeqMode(args)
    /\ pc' = "rewrite_read"
    /\ UNCHANGED <<exit, outcome, msgs>>
    /\ UNCHANGED <<args, cfg, cfg0, local_vars, repo_vars, trace, envs, file_vars, line_vars, pure_vars, proc_vars, env_vars>>

\* cli.rs 280-294 with sequence_editor::run: first argument --sequence-editor
EntrySequenceEditor ==
    /\ Running("entry")
    /\ IsSeqMode(args)
    /\ IF args.seq = "nopath"
       THEN /\ msgs' = msgs \cup {"missing todo file path"}
            /\ Return(Err, "seq_fail")
       ELSE /\ pc' = "rewrite_read"
            /\ UNCHANGED <<exit, outcome, msgs>>
    /\ UNCHANGED <<args, cfg, cfg0, local_vars, repo_vars, trace, envs, file_vars, line_vars, pure_vars, proc_vars, env_vars>>

\* cli.rs 297: no special flag; manual_mode is read from args
EntryParseFlags ==
    /\ Running("entry")
    /\ IsRunMode(args)
    /\ pc' = "which_git"
    /\ UNCHANGED <<args, exit, outcome, msgs, cfg, cfg0, local_vars, repo_vars,
                   trace, envs, file_vars, line_vars, pure_vars, proc_vars, env_vars>>

(* ---------------------------- rewrite() -------------------------------- *)
\* the io::Error messages the three file operations can fail with
ReadErrors(file) ==
    IF file.exists THEN {"permission denied", "invalid data"} ELSE {"not found"}
CreateErrors == {"permission denied"}
WriteErrors == {"no space left"}

\* an error that names the stage only
rewrite_error_no_cause(stage, e) == stage \o " failed"

\* sequence_editor.rs 39, 51, 56: format!("<stage> failed: {}", e)
rewrite_error(stage, e) == stage \o " failed: " \o e

\* a read that opens the file for writing and so empties it
RewriteRead_truncating ==
    /\ Running("rewrite_read")
    /\ todo_file.exists
    /\ Log("read", TRUE, <<>>)
    /\ body' = todo_file.content
    /\ todo_file' = [exists |-> TRUE, content |-> <<>>]
    /\ pc' = "rewrite_create"
    /\ UNCHANGED <<exit, outcome, msgs>>
    /\ UNCHANGED <<args, cfg, cfg0, local_vars, repo_vars, file0, line_vars, pure_vars, proc_vars, env_vars>>

\* sequence_editor.rs 37-47: read the whole file
RewriteRead ==
    /\ Running("rewrite_read")
    /\ \E ok \in BOOLEAN :
        /\ ok => todo_file.exists
        /\ Log("read", ok, <<>>)
        /\ IF ok
           THEN /\ body' = todo_file.content
                /\ pc' = "rewrite_create"
                /\ UNCHANGED <<exit, outcome, msgs>>
           ELSE /\ \E e \in ReadErrors(todo_file) :
                     msgs' = msgs \cup {rewrite_error("read", e)}
                /\ Return(Err, "seq_fail")
                /\ UNCHANGED body
    /\ UNCHANGED <<args, cfg, cfg0, local_vars, repo_vars, todo_file, file0, line_vars, pure_vars, proc_vars, env_vars>>

\* a file opened for writing without being truncated
RewriteCreate_keeps_content ==
    /\ Running("rewrite_create")
    /\ Log("create", TRUE, <<>>)
    /\ pc' = "rewrite_write"
    /\ UNCHANGED <<exit, outcome, msgs>>
    /\ UNCHANGED <<args, cfg, cfg0, local_vars, repo_vars, file_vars, line_vars, pure_vars, proc_vars, env_vars>>

\* sequence_editor.rs 49-52: File::create creates or truncates
RewriteCreate ==
    /\ Running("rewrite_create")
    /\ \E ok \in BOOLEAN :
        /\ Log("create", ok, <<>>)
        /\ IF ok
           THEN /\ todo_file' = [exists |-> TRUE, content |-> <<>>]
                /\ pc' = "rewrite_write"
                /\ UNCHANGED <<exit, outcome, msgs>>
           ELSE /\ \E e \in CreateErrors :
                     msgs' = msgs \cup {rewrite_error("create", e)}
                /\ Return(Err, "seq_fail")
                /\ UNCHANGED todo_file
    /\ UNCHANGED <<args, cfg, cfg0, local_vars, repo_vars, file0, body, line_vars, pure_vars, proc_vars, env_vars>>

\* sequence_editor.rs 54-57: write_all; a failed write leaves a prefix
RewriteWrite ==
    /\ Running("rewrite_write")
    /\ LET t == transformed(body) IN
       \E ok \in BOOLEAN :
        /\ Log("write", ok, <<>>)
        /\ IF ok
           THEN /\ todo_file' = [exists |-> TRUE, content |-> t]
                /\ UNCHANGED msgs
                /\ Return(Ok(0), "seq_ok")
           ELSE /\ \E k \in 0..(Len(t) - 1) :
                     todo_file' = [exists |-> TRUE, content |-> SubSeq(t, 1, k)]
                /\ \E e \in WriteErrors :
                     msgs' = msgs \cup {rewrite_error("write", e)}
                /\ Return(Err, "seq_fail")
    /\ UNCHANGED <<args, cfg, cfg0, local_vars, repo_vars, file0, body, line_vars, pure_vars, proc_vars, env_vars>>

(* ---------------------------- verify_environment() --------------------- *)
\* the run stops with Err(()) at the step `op`
Fail(op, label) ==
    /\ Log(op, FALSE, <<>>)
    /\ Return(Err, label)
    /\ msgs' = msgs \cup {label}

\* the step `op` succeeded; the run goes on at `next`
Pass(op, arg, next) ==
    /\ Log(op, TRUE, arg)
    /\ pc' = next
    /\ UNCHANGED <<exit, outcome, msgs>>

\* cli.rs 15-21: which::which("git")
WhichGit ==
    /\ Running("which_git")
    /\ \/ Pass("which", <<>>, "rev_parse_toplevel")
       \/ Fail("which", "env_fail")
    /\ UNCHANGED <<args, cfg, cfg0, local_vars, repo_vars, file_vars, line_vars, pure_vars, proc_vars, env_vars>>

\* cli.rs 24-35: git rev-parse --show-toplevel
RevParseToplevel ==
    /\ Running("rev_parse_toplevel")
    /\ \/ Pass("rev_parse_toplevel", <<>>, "rev_parse_git_dir")
       \/ Fail("rev_parse_toplevel", "env_fail")
    /\ UNCHANGED <<args, cfg, cfg0, local_vars, repo_vars, file_vars, line_vars, pure_vars, proc_vars, env_vars>>

\* cli.rs 38-56: git rev-parse --git-dir
RevParseGitDir ==
    /\ Running("rev_parse_git_dir")
    /\ \/ Pass("rev_parse_git_dir", <<>>, "config_get_name")
       \/ Fail("rev_parse_git_dir", "env_fail")
    /\ UNCHANGED <<args, cfg, cfg0, local_vars, repo_vars, file_vars, line_vars, pure_vars, proc_vars, env_vars>>

(* ---------------------------- get_author_input() ----------------------- *)
\* git::config_get: the value, or the empty string when the call fails
config_get(ok, value) == IF ok THEN value ELSE <<>>

\* cli.rs 71: default_name
ConfigGetName ==
    /\ Running("config_get_name")
    /\ \E ok \in BOOLEAN :
        /\ default_name' = config_get(ok, cfg.name)
        /\ Log("config_get_name", ok, <<>>)
    /\ pc' = "config_get_email"
    /\ UNCHANGED <<args, exit, outcome, msgs, cfg, cfg0, default_email, name, email,
                   author, repo_vars, file_vars, line_vars, pure_vars, proc_vars, env_vars>>

\* cli.rs 72: default_email
ConfigGetEmail ==
    /\ Running("config_get_email")
    /\ \E ok \in BOOLEAN :
        /\ default_email' = config_get(ok, cfg.email)
        /\ Log("config_get_email", ok, <<>>)
    /\ pc' = "ask_name"
    /\ UNCHANGED <<args, exit, outcome, msgs, cfg, cfg0, default_name, name, email,
                   author, repo_vars, file_vars, line_vars, pure_vars, proc_vars, env_vars>>

\* cli.rs 76-82: prompt for the name
AskName ==
    /\ Running("ask_name")
    /\ \/ \E v \in InputStrings :
            /\ name' = v
            /\ Pass("ask_name", v, "ask_email")
       \/ /\ Fail("ask_name", "prompt_fail")
          /\ UNCHANGED name
    /\ UNCHANGED <<args, cfg, cfg0, default_name, default_email, email, author,
                   repo_vars, file_vars, line_vars, pure_vars, proc_vars, env_vars>>

\* cli.rs 84-100 and 311-322: prompt for the email, then the no-change test
AskEmail ==
    /\ Running("ask_email")
    /\ \/ \E v \in InputEmails :
            /\ Log("ask_email", TRUE, v)
            /\ IF should_exit_no_change(name, v, default_name, default_email)
               THEN /\ msgs' = msgs \cup {"no changes detected"}
                    /\ Return(Ok(0), "no_change")
                    /\ UNCHANGED <<name, email>>
               ELSE /\ name' = trim(name)
                    /\ email' = trim(v)
                    /\ pc' = "config_set_name"
                    /\ UNCHANGED <<exit, outcome, msgs>>
       \/ /\ Fail("ask_email", "prompt_fail")
          /\ UNCHANGED <<name, email>>
    /\ UNCHANGED <<args, cfg, cfg0, default_name, default_email, author,
                   repo_vars, file_vars, line_vars, pure_vars, proc_vars, env_vars>>

(* ---------------------------- update_git_config() ---------------------- *)
\* cli.rs 105-116: git config user.name <name>
ConfigSetName ==
    /\ Running("config_set_name")
    /\ \/ /\ cfg' = [cfg EXCEPT !.name = name]
          /\ Pass("config_set_name", name, "config_set_email")
       \/ /\ Fail("config_set_name", "config_fail")
          /\ UNCHANGED cfg
    /\ UNCHANGED <<args, cfg0, local_vars, repo_vars, file_vars, line_vars, pure_vars, proc_vars, env_vars>>

\* a config update that puts user.name back when user.email cannot be set
ConfigSetEmail_rollback ==
    /\ Running("config_set_email")
    /\ \/ /\ cfg' = [cfg EXCEPT !.email = email]
          /\ Pass("config_set_email", email, "confirm")
       \/ /\ Fail("config_set_email", "config_fail")
          /\ cfg' = [cfg EXCEPT !.name = cfg0.name]
    /\ UNCHANGED <<args, cfg0, local_vars, repo_vars, file_vars, line_vars, pure_vars, proc_vars, env_vars>>

\* cli.rs 117-128: git config user.email <email>
ConfigSetEmail ==
    /\ Running("config_set_email")
    /\ \/ /\ cfg' = [cfg EXCEPT !.email = email]
          /\ Pass("config_set_email", email, "confirm")
       \/ /\ Fail("config_set_email", "config_fail")
          /\ UNCHANGED cfg
    /\ UNCHANGED <<args, cfg0, local_vars, repo_vars, file_vars, line_vars, pure_vars, proc_vars, env_vars>>

(* ---------------------------- confirmation and rebase start ------------ *)
\* cli.rs 331-333, 353-363: prompt::confirm_start
ConfirmStart ==
    /\ Running("confirm")
    /\ \/ Pass("confirm", <<"y">>, "rebase_start")
       \/ /\ Log("confirm", TRUE, <<"n">>)
          /\ msgs' = msgs \cup {"Canceled by user. No changes made."}
          /\ Return(Ok(0), "cancelled")
       \/ Fail("confirm", "prompt_fail")
    /\ UNCHANGED <<args, cfg, cfg0, local_vars, repo_vars, file_vars, line_vars, pure_vars, proc_vars, env_vars>>

\* entry() going on into the loop whatever rebase_interactive returned
RebaseInteractive_unchecked ==
    /\ Running("rebase_start")
    /\ \E ok \in BOOLEAN :
        /\ ok => (~rebase_merge /\ ~rebase_apply)
        /\ LET adv == GitAdvance(ParseTodo(transformed(GitTodo(Len(authors)))), 0) IN
           IF ok
           THEN todo' = adv.todo /\ head' = adv.head /\ rebase_merge' = adv.stopped
           ELSE UNCHANGED <<todo, head, rebase_merge>>
        /\ Log("rebase_start", ok, <<>>)
    /\ author' = author_string(name, email)
    /\ pc' = "loop_check"
    /\ UNCHANGED <<args, exit, outcome, msgs, cfg, cfg0, default_name, default_email,
                   name, email, authors, rebase_apply, amended, file_vars, line_vars, pure_vars, proc_vars, env_vars>>

\* what current_exe() can return; it is only called in auto mode
ExeResults(auto) == IF auto THEN ExePaths ELSE {exe}

\* cli.rs 335-351 with git::rebase_interactive: git rebase -i --root
RebaseInteractive ==
    /\ Running("rebase_start")
    /\ LET auto == auto_mark_all(args.manual)
           n == Len(authors)
       IN
       \/ \* std::env::current_exe() fails: git is not spawned
          /\ auto
          /\ Fail("current_exe", "start_fail")
          /\ UNCHANGED <<author, repo_vars, exe>>
       \/ \* git exits non-zero; a conflict leaves the sentinel directory
          /\ \E path \in ExeResults(auto) :
               /\ exe' = path
               /\ LogEnv("rebase_start", FALSE, <<>>,
                         child_env(auto, build_sequence_editor_env(to_string_lossy(path)),
                                   proc_env))
          /\ Return(Err, "start_fail")
          /\ msgs' = msgs \cup {"start_fail"}
          /\ rebase_merge' \in {rebase_merge, TRUE}
          /\ UNCHANGED <<author, authors, todo, head, rebase_apply, amended>>
       \/ \* git exits zero: the todo list went through the sequence editor
          \* (this program, in auto mode) or the user's editor
          /\ ~rebase_merge /\ ~rebase_apply
          /\ \E content \in (IF auto
                             THEN {transformed(GitTodo(n))}
                             ELSE {UserTodo(n, E) : E \in SUBSET (1..n)}) :
               LET adv == GitAdvance(ParseTodo(content), 0) IN
               /\ todo' = adv.todo
               /\ head' = adv.head
               /\ rebase_merge' = adv.stopped
          /\ \E path \in ExeResults(auto) :
               \* git could start the editor named in the variable
               /\ auto => to_string_lossy(path) = path
               /\ exe' = path
               /\ LogEnv("rebase_start", TRUE, <<>>,
                         child_env(auto, build_sequence_editor_env(to_string_lossy(path)),
                                   proc_env))
          /\ author' = author_string(name, email)
          /\ pc' = "loop_check"
          /\ UNCHANGED <<exit, outcome, msgs, authors, rebase_apply, amended>>
    /\ UNCHANGED <<args, cfg, cfg0, default_name, default_email, name, email,
                   file_vars, line_vars, pure_vars, proc_vars, proc_env>>

(* ---------------------------- run_rebase_loop() ------------------------ *)
\* a loop that prints the success message and goes on instead of breaking
LoopCheck_no_break ==
    /\ Running("loop_check")
    /\ LET r == rebase_in_progress(rebase_merge, rebase_apply) IN
       /\ Log("check", r, <<>>)
       /\ msgs' = IF r THEN msgs ELSE msgs \cup {"Successfully rewrote commit authors."}
       /\ pc' = "amend"
       /\ UNCHANGED <<exit, outcome>>
    /\ UNCHANGED <<args, cfg, cfg0, local_vars, repo_vars, file_vars, line_vars, pure_vars, proc_vars, env_vars>>

\* the loop deriving the progress state once and reusing it afterwards
LoopCheck_cached ==
    /\ Running("loop_check")
    /\ LET r == IF \E i \in DOMAIN trace : trace[i].op = "check"
                THEN trace[CHOOSE i \in DOMAIN trace : trace[i].op = "check"].ok
                ELSE rebase_in_progress(rebase_merge, rebase_apply)
       IN
       /\ Log("check", r, <<>>)
       /\ IF r /\ NumChecks < Len(authors) + 2
          THEN /\ pc' = "amend"
               /\ UNCHANGED <<exit, outcome, msgs>>
          ELSE /\ msgs' = msgs \cup {"Successfully rewrote commit authors."}
               /\ Return(Ok(0), "completed")
    /\ UNCHANGED <<args, cfg, cfg0, local_vars, repo_vars, file_vars, line_vars, pure_vars, proc_vars, env_vars>>

\* cli.rs 135-143: the progress check at the top of every iteration
LoopCheck ==
    /\ Running("loop_check")
    /\ LET r == rebase_in_progress(rebase_merge, rebase_apply) IN
       /\ Log("check", r, <<>>)
       /\ IF r
          THEN /\ pc' = "amend"
               /\ UNCHANGED <<exit, outcome, msgs>>
          ELSE /\ msgs' = msgs \cup {"Successfully rewrote commit authors."}
               /\ Return(Ok(0), "completed")
    /\ UNCHANGED <<args, cfg, cfg0, local_vars, repo_vars, file_vars, line_vars, pure_vars, proc_vars, env_vars>>

\* the loop going on to `git rebase --continue` whatever the amend returned
AmendAuthor_unchecked ==
    /\ Running("amend")
    /\ \E ok \in BOOLEAN :
        /\ Log("amend", ok, author)
        /\ IF ok
           THEN /\ authors' = [i \in DOMAIN authors |->
                                  IF i = head THEN author ELSE authors[i]]
                /\ amended' = Append(amended, head)
           ELSE UNCHANGED <<authors, amended>>
    /\ pc' = "continue"
    /\ UNCHANGED <<args, exit, outcome, msgs, cfg, cfg0, local_vars, todo, head,
                   rebase_merge, rebase_apply, file_vars, line_vars, pure_vars, proc_vars, env_vars>>

\* cli.rs 145-158 with git::amend_author: git commit --amend --author=<author> --no-edit
AmendAuthor ==
    /\ Running("amend")
    /\ \/ /\ Log("amend", TRUE, author)
          /\ authors' = [i \in DOMAIN authors |-> IF i = head THEN author ELSE authors[i]]
          /\ amended' = Append(amended, head)
          /\ msgs' = msgs \cup {"Amended current commit author."}
          /\ pc' = "continue"
          /\ UNCHANGED <<exit, outcome>>
       \/ /\ Log("amend", FALSE, author)
          /\ msgs' = msgs \cup {"amend_fail"}
          /\ Return(Err, "amend_fail")
          /\ UNCHANGED <<authors, amended>>
    /\ UNCHANGED <<args, cfg, cfg0, local_vars, todo, head, rebase_merge, rebase_apply,
                   file_vars, line_vars, pure_vars, proc_vars, env_vars>>

\* cli.rs 160-171 with git::rebase_continue: git rebase --continue
RebaseContinue ==
    /\ Running("continue")
    /\ \/ /\ LET adv == GitAdvance(todo, head) IN
             /\ todo' = adv.todo
             /\ head' = adv.head
             /\ rebase_merge' = adv.stopped
          /\ Pass("continue", <<>>, "loop_check")
       \/ /\ Fail("continue", "continue_fail")
          /\ UNCHANGED <<todo, head, rebase_merge>>
    /\ UNCHANGED <<args, cfg, cfg0, local_vars, authors, rebase_apply, amended,
                   file_vars, line_vars, pure_vars, proc_vars, env_vars>>

(* ---------------------------- specifications --------------------------- *)
Next ==
    \/ EntryHelp
    \/ EntryVersion
    \/ EntrySequenceEditor
    \/ EntryParseFlags
    \/ RewriteRead
    \/ RewriteCreate
    \/ RewriteWrite
    \/ WhichGit
    \/ RevParseToplevel
    \/ RevParseGitDir
    \/ ConfigGetName
    \/ ConfigGetEmail
    \/ AskName
    \/ AskEmail
    \/ ConfigSetName
    \/ ConfigSetEmail
    \/ ConfirmStart
    \/ RebaseInteractive
    \/ LoopCheck
    \/ AmendAuthor
    \/ RebaseContinue

Spec == Init /\ [][Next]_vars

\* transform_line applied to a line
ApplyTransformLine ==
    /\ Running("transform_line")
    /\ line_out' = transform_line(line)
    /\ pc' = "line_done"
    /\ UNCHANGED <<args, exit, outcome, msgs, cfg, cfg0, local_vars, repo_vars,
                   trace, envs, file_vars, line, pure_vars, proc_vars, env_vars>>

(* ---------------------------- processes -------------------------------- *)
\* a wait that returns whether or not the child has exited
status_returned_nonblocking(c) == TRUE

\* git.rs 62: Command::status returns once the child has exited
status_returned(c) == c.state = "exited"

\* Command::status starts the child
Spawn(cmd, arg, env) ==
    children' = Append(children, [cmd |-> cmd, arg |-> arg, env |-> env,
                                  state |-> "running", ok |-> FALSE])

\* the child run_status is waiting for: the one it started last
Awaited == children[Len(children)]

\* child i exits with status zero (ok) or non-zero
Exits(i, ok) == children' = [children EXCEPT ![i].state = "exited", ![i].ok = ok]

\* cli.rs 335-336, git.rs 276-299: build the command and start git rebase -i --root
RebaseSpawn ==
    /\ Running("rebase_start")
    /\ LET auto == auto_mark_all(args.manual) IN
       \/ \* std::env::current_exe() fails: git is not spawned
          /\ auto
          /\ Fail("current_exe", "start_fail")
          /\ UNCHANGED <<exe, children>>
       \/ /\ \E path \in ExeResults(auto) :
               /\ exe' = path
               /\ Spawn("rebase", <<>>,
                        child_env(auto, build_sequence_editor_env(to_string_lossy(path)),
                                  proc_env))
          /\ pc' = "rebase_wait"
          /\ UNCHANGED <<exit, outcome, msgs, trace, envs>>
    /\ UNCHANGED <<args, cfg, cfg0, local_vars, repo_vars, file_vars, line_vars,
                   pure_vars, editor, proc_env>>

\* git rebase -i --root: git writes the todo list and starts the sequence
\* editor, or refuses to start
GitRebaseWritesTodo ==
    /\ \E i \in DOMAIN children :
         /\ children[i].cmd = "rebase" /\ children[i].state = "running"
         /\ \/ /\ Exits(i, FALSE)
               /\ UNCHANGED <<todo_file, rebase_merge, editor>>
            \/ /\ ~rebase_merge /\ ~rebase_apply
               /\ todo_file' = [exists |-> TRUE, content |-> GitTodo(Len(authors))]
               /\ rebase_merge' = TRUE
               /\ editor' = "running"
               /\ children' = [children EXCEPT ![i].state = "editing"]
    /\ UNCHANGED <<args, pc, exit, outcome, msgs, cfg, cfg0, local_vars, authors, todo,
                   head, rebase_apply, amended, trace, envs, file0, body, line_vars,
                   pure_vars, env_vars>>

\* the editor git started is this program in Sequence-Editor Mode, a process
\* of its own: sequence_editor::rewrite on git's todo file
SequenceEditorRuns ==
    /\ editor = "running"
    /\ \E i \in DOMAIN children :
         /\ children[i].state = "editing"
         /\ children[i].env # <<>>
    /\ \/ \* git found the executable named in GIT_SEQUENCE_EDITOR
          /\ to_string_lossy(exe) = exe
          /\ todo_file' = [exists |-> TRUE, content |-> transformed(todo_file.content)]
          /\ editor' = "done"
       \/ /\ todo_file' \in {todo_file, [exists |-> TRUE, content |-> <<>>]}
          /\ editor' = "failed"
    /\ UNCHANGED <<args, pc, exit, outcome, msgs, cfg, cfg0, local_vars, repo_vars,
                   trace, envs, file0, body, line_vars, pure_vars, children, env_vars>>

\* without GIT_SEQUENCE_EDITOR git starts the user's editor
UserEditorRuns ==
    /\ editor = "running"
    /\ \E i \in DOMAIN children :
         /\ children[i].state = "editing"
         /\ children[i].env = <<>>
    /\ \/ /\ \E E \in SUBSET (1..Len(authors)) :
               todo_file' = [exists |-> TRUE, content |-> UserTodo(Len(authors), E)]
          /\ editor' = "done"
       \/ /\ editor' = "failed"
          /\ UNCHANGED todo_file
    /\ UNCHANGED <<args, pc, exit, outcome, msgs, cfg, cfg0, local_vars, repo_vars,
                   trace, envs, file0, body, line_vars, pure_vars, children, env_vars>>

\* git reads the edited todo list back and replays it up to the first stop;
\* a failed editor makes it give the rebase up
GitRebaseReplays ==
    /\ editor \in {"done", "failed"}
    /\ \E i \in DOMAIN children :
         /\ children[i].cmd = "rebase" /\ children[i].state = "editing"
         /\ IF editor = "failed"
            THEN /\ rebase_merge' = FALSE
                 /\ Exits(i, FALSE)
                 /\ UNCHANGED <<todo, head>>
            ELSE \/ LET adv == GitAdvance(ParseTodo(todo_file.content), 0) IN
                    /\ todo' = adv.todo
                    /\ head' = adv.head
                    /\ rebase_merge' = adv.stopped
                    /\ Exits(i, TRUE)
                 \/ \* a conflict: git stops with the sentinel in place
                    /\ Exits(i, FALSE)
                    /\ UNCHANGED <<todo, head, rebase_merge>>
    /\ UNCHANGED <<args, pc, exit, outcome, msgs, cfg, cfg0, local_vars, authors,
                   rebase_apply, amended, trace, envs, file_vars, line_vars,
                   pure_vars, editor, env_vars>>

\* git.rs 62-73, 299 and cli.rs 336-350: the status of git rebase -i --root
RebaseWait ==
    /\ Running("rebase_wait")
    /\ status_returned(Awaited)
    /\ LogEnv("rebase_start", Awaited.ok, <<>>, Awaited.env)
    /\ IF Awaited.ok
       THEN /\ author' = author_string(name, email)
            /\ pc' = "loop_check"
            /\ UNCHANGED <<exit, outcome, msgs>>
       ELSE /\ Return(Err, "start_fail")
            /\ msgs' = msgs \cup {"start_fail"}
            /\ UNCHANGED author
    /\ UNCHANGED <<args, cfg, cfg0, default_name, default_email, name, email,
                   repo_vars, file_vars, line_vars, pure_vars, proc_vars, env_vars>>

\* cli.rs 145, git.rs 339-348: start git commit --amend --author
AmendSpawn ==
    /\ Running("amend")
    /\ Spawn("amend", author, proc_env)
    /\ pc' = "amend_wait"
    /\ UNCHANGED <<args, exit, outcome, msgs, cfg, cfg0, local_vars, repo_vars,
                   trace, envs, file_vars, line_vars, pure_vars, editor, env_vars>>

\* git commit --amend --author: the commit at HEAD gets the author, or git fails
GitAmends ==
    /\ \E i \in DOMAIN children :
         /\ children[i].cmd = "amend" /\ children[i].state = "running"
         /\ \/ /\ authors' = [k \in DOMAIN authors |->
                                 IF k = head THEN children[i].arg ELSE authors[k]]
               /\ amended' = Append(amended, head)
               /\ Exits(i, TRUE)
            \/ /\ Exits(i, FALSE)
               /\ UNCHANGED <<authors, amended>>
    /\ UNCHANGED <<args, pc, exit, outcome, msgs, cfg, cfg0, local_vars, todo, head,
                   rebase_merge, rebase_apply, trace, envs, file_vars, line_vars,
                   pure_vars, editor, env_vars>>

\* git.rs 62-73 and cli.rs 145-158: the status of the amend
AmendWait ==
    /\ Running("amend_wait")
    /\ status_returned(Awaited)
    /\ Log("amend", Awaited.ok, author)
    /\ IF Awaited.ok
       THEN /\ msgs' = msgs \cup {"Amended current commit author."}
            /\ pc' = "continue"
            /\ UNCHANGED <<exit, outcome>>
       ELSE /\ msgs' = msgs \cup {"amend_fail"}
            /\ Return(Err, "amend_fail")
    /\ UNCHANGED <<args, cfg, cfg0, local_vars, repo_vars, file_vars, line_vars,
                   pure_vars, proc_vars, env_vars>>

\* cli.rs 160, git.rs 383-390: start git rebase --continue
ContinueSpawn ==
    /\ Running("continue")
    /\ Spawn("continue", <<>>, proc_env)
    /\ pc' = "continue_wait"
    /\ UNCHANGED <<args, exit, outcome, msgs, cfg, cfg0, local_vars, repo_vars,
                   trace, envs, file_vars, line_vars, pure_vars, editor, env_vars>>

\* git rebase --continue: git replays up to the next stop, or fails
GitContinues ==
    /\ \E i \in DOMAIN children :
         /\ children[i].cmd = "continue" /\ children[i].state = "running"
         /\ \/ LET adv == GitAdvance(todo, head) IN
               /\ todo' = adv.todo
               /\ head' = adv.head
               /\ rebase_merge' = adv.stopped
               /\ Exits(i, TRUE)
            \/ /\ Exits(i, FALSE)
               /\ UNCHANGED <<todo, head, rebase_merge>>
    /\ UNCHANGED <<args, pc, exit, outcome, msgs, cfg, cfg0, local_vars, authors,
                   rebase_apply, amended, trace, envs, file_vars, line_vars,
                   pure_vars, editor, env_vars>>

\* git.rs 62-73 and cli.rs 160-171: the status of the continue
ContinueWait ==
    /\ Running("continue_wait")
    /\ status_returned(Awaited)
    /\ IF Awaited.ok
       THEN Pass("continue", <<>>, "loop_check")
       ELSE Fail("continue", "continue_fail")
    /\ UNCHANGED <<args, cfg, cfg0, local_vars, repo_vars, file_vars, line_vars,
                   pure_vars, proc_vars, env_vars>>

\* a run of the top-level program in a repository with no rebase under way
ProcInit ==
    /\ Init
    /\ IsRunMode(args)
    /\ cfg = [name |-> <<"a">>, email |-> <<"b">>]
    /\ ~rebase_merge /\ ~rebase_apply

\* the run with its git commands as processes: started, running, waited for
ProcNext ==
    \/ EntryParseFlags
    \/ WhichGit
    \/ RevParseToplevel
    \/ RevParseGitDir
    \/ ConfigGetName
    \/ ConfigGetEmail
    \/ AskName
    \/ AskEmail
    \/ ConfigSetName
    \/ ConfigSetEmail
    \/ ConfirmStart
    \/ RebaseSpawn
    \/ GitRebaseWritesTodo
    \/ SequenceEditorRuns
    \/ UserEditorRuns
    \/ GitRebaseReplays
    \/ RebaseWait
    \/ LoopCheck
    \/ AmendSpawn
    \/ GitAmends
    \/ AmendWait
    \/ ContinueSpawn
    \/ GitContinues
    \/ ContinueWait

ProcSpec == ProcInit /\ [][ProcNext]_vars

(* ---------------------------- functions on their own ------------------ *)
\* executable paths: separators, letters, spaces and tabs
Paths == SeqUpTo({"/", "g", SP, TAB}, MaxPath)

\* names that can exist directly under a git directory
GitDirEntries == {"rebase-merge", "rebase-apply", "HEAD", "MERGE_HEAD"}

\* git.rs 426-429: git_dir.join(name).exists()
exists(git_dir, entry) == entry \in git_dir

\* cli.rs 201-208 applied to four strings
ApplyShouldExitNoChange ==
    /\ Running("fn_call")
    /\ fn_in.fn = "should_exit_no_change"
    /\ fn_out' = should_exit_no_change(fn_in.arg.name, fn_in.arg.email,
                                       fn_in.arg.default_name, fn_in.arg.default_email)
    /\ pc' = "fn_done"
    /\ UNCHANGED <<args, exit, outcome, msgs, cfg, cfg0, local_vars, repo_vars,
                   trace, envs, file_vars, line_vars, fn_in, proc_vars, env_vars>>

\* git.rs 24-32 applied to a path
ApplyBuildSequenceEditorEnv ==
    /\ Running("fn_call")
    /\ fn_in.fn = "build_sequence_editor_env"
    /\ fn_out' = build_sequence_editor_env(fn_in.arg)
    /\ pc' = "fn_done"
    /\ UNCHANGED <<args, exit, outcome, msgs, cfg, cfg0, local_vars, repo_vars,
                   trace, envs, file_vars, line_vars, fn_in, proc_vars, env_vars>>

\* git.rs 425-434 applied to a git directory
ApplyRebaseInProgress ==
    /\ Running("fn_call")
    /\ fn_in.fn = "rebase_in_progress"
    /\ fn_out' = rebase_in_progress(exists(fn_in.arg, "rebase-merge"),
                                    exists(fn_in.arg, "rebase-apply"))
    /\ pc' = "fn_done"
    /\ UNCHANGED <<args, exit, outcome, msgs, cfg, cfg0, local_vars, repo_vars,
                   trace, envs, file_vars, line_vars, fn_in, proc_vars, env_vars>>

\* the function applied twice in a row: transform_line to a line, or a
\* successful rewrite() to a file's content
Twice(fn, x) == IF fn = "transform_line" THEN transform_line(x) ELSE transformed(x)

\* sequence_editor.rs 74-89 or 36-58, applied to the input
ApplyOnce ==
    /\ Running("fn_call")
    /\ fn_in.fn \in {"transform_line", "rewrite"}
    /\ fn_out' = <<Twice(fn_in.fn, fn_in.arg)>>
    /\ pc' = "fn_again"
    /\ UNCHANGED <<args, exit, outcome, msgs, cfg, cfg0, local_vars, repo_vars,
                   trace, envs, file_vars, line_vars, fn_in, proc_vars, env_vars>>

\* the same function applied to its own result
ApplyAgain ==
    /\ Running("fn_again")
    /\ fn_out' = Append(fn_out, Twice(fn_in.fn, fn_out[1]))
    /\ pc' = "fn_done"
    /\ UNCHANGED <<args, exit, outcome, msgs, cfg, cfg0, local_vars, repo_vars,
                   trace, envs, file_vars, line_vars, fn_in, proc_vars, env_vars>>

\* one of the functions, about to be applied to one input
PureInit ==
    /\ args = [help |-> FALSE, version |-> FALSE, seq |-> "none", manual |-> FALSE]
    /\ cfg = [name |-> <<"a">>, email |-> <<"b">>]
    /\ authors = <<OldAuthor>>
    /\ rebase_merge = FALSE /\ rebase_apply = FALSE
    /\ todo_file = NoFile
    /\ line = <<>>
    /\ \/ fn_in \in [fn : {"should_exit_no_change"},
                      arg : [name : InputStrings, email : InputStrings,
                             default_name : InputStrings, default_email : InputStrings]]
       \/ fn_in \in [fn : {"build_sequence_editor_env"}, arg : Paths]
       \/ fn_in \in [fn : {"rebase_in_progress"}, arg : SUBSET GitDirEntries]
       \/ fn_in \in [fn : {"transform_line"}, arg : TodoLines]
       \/ fn_in \in [fn : {"rewrite"}, arg : TodoFiles]
    /\ InitCommon
    /\ pc = "fn_call"

PureNext ==
    \/ ApplyShouldExitNoChange
    \/ ApplyBuildSequenceEditorEnv
    \/ ApplyRebaseInProgress
    \/ ApplyOnce
    \/ ApplyAgain

PureSpec == PureInit /\ [][PureNext]_vars

\* the todo transformer on its own: a line through transform_line, or a
\* file through the sequence-editor mode
TodoInit ==
    /\ cfg = [name |-> <<"a">>, email |-> <<"b">>]
    /\ authors = <<OldAuthor>>
    /\ rebase_merge = FALSE /\ rebase_apply = FALSE
    /\ \/ /\ args = [help |-> FALSE, version |-> FALSE, seq |-> "path", manual |-> FALSE]
          /\ line \in TodoLines
          /\ fn_in = NoCall
          /\ todo_file = NoFile
          /\ InitCommon
          /\ pc = "transform_line"
       \/ /\ args \in [help : {FALSE}, version : {FALSE}, seq : {"nopath", "path"},
                       manual : {FALSE}]
          /\ line = <<>>
          /\ fn_in = NoCall
          /\ IF args.seq = "path"
             THEN todo_file \in {NoFile} \cup [exists : {TRUE}, content : TodoFiles]
             ELSE todo_file = NoFile
          /\ InitCommon
          /\ pc = "entry"

TodoNext ==
    \/ ApplyTransformLine
    \/ EntrySequenceEditor
    \/ RewriteRead
    \/ RewriteCreate
    \/ RewriteWrite

TodoSpec == TodoInit /\ [][TodoNext]_vars

(* ---------------------------- reading the trace ------------------------ *)
SUCCESS_MSG == "Successfully rewrote commit authors."

LoopOps == {"check", "amend", "continue"}

NumOp(o) == Cardinality({i \in DOMAIN trace : trace[i].op = o})

Happened(op, ok) == \E i \in DOMAIN trace : trace[i].op = op /\ trace[i].ok = ok

\* the latest step, a placeholder before the first one
LastEv == IF trace = <<>> THEN Ev("none", TRUE, <<>>) ELSE trace[Len(trace)]

\* a step that failed; a failed config_get is swallowed and a check that
\* returns false is not a failure
IsFailure(e) ==
    ~e.ok /\ e.op \notin {"check", "config_get_name", "config_get_email"}

\* what was typed at the prompt `op`
Typed(op) == trace[CHOOSE i \in DOMAIN trace : trace[i].op = op /\ trace[i].ok].arg

\* position of a step in the order of entry()
Rank(op) ==
    CASE op = "which" -> 1
      [] op = "rev_parse_toplevel" -> 2
      [] op = "rev_parse_git_dir" -> 3
      [] op = "config_get_name" -> 4
      [] op = "config_get_email" -> 5
      [] op = "ask_name" -> 6
      [] op = "ask_email" -> 7
      [] op = "config_set_name" -> 8
      [] op = "config_set_email" -> 9
      [] op = "confirm" -> 10
      [] op \in {"current_exe", "rebase_start"} -> 11
      [] op \in LoopOps -> 12
      [] OTHER -> 0

IsComment(l) == StartsWith(trim_start(l), HASH)
IsPick(l) == ~IsComment(l) /\ StartsWith(trim_start(l), PICK_SP)
IsEdit(l) == ~IsComment(l) /\ StartsWith(trim_start(l), EDIT_SP)
CountPick(ls) == Cardinality({i \in DOMAIN ls : IsPick(ls[i])})
CountEdit(ls) == Cardinality({i \in DOMAIN ls : IsEdit(ls[i])})

\* number of leading whitespace characters of l
LeadingWs(l) ==
    CHOOSE k \in 0..Len(l) :
        /\ \A i \in 1..k : IsWhitespace(l[i])
        /\ k < Len(l) => ~IsWhitespace(l[k + 1])

(* ---------------------------- claims ----------------------------------- *)
\* C1: every check reports the state of the git directory as it is at that
\* moment; an amend directly follows a check that returned true, a continue
\* directly follows a successful amend, a check is the first step of the loop
\* and of every later iteration, and amends minus continues is 0 or 1.
C1_LoopAlternates ==
    /\ \A i \in DOMAIN trace :
        /\ trace[i].op = "amend" =>
              i > 1 /\ trace[i - 1].op = "check" /\ trace[i - 1].ok
        /\ trace[i].op = "continue" =>
              i > 1 /\ trace[i - 1].op = "amend" /\ trace[i - 1].ok
        /\ trace[i].op = "check" =>
              i > 1 /\ trace[i - 1].op \in {"rebase_start", "continue"} /\ trace[i - 1].ok
    /\ (trace # <<>> /\ LastEv.op = "check") =>
          LastEv.ok = (rebase_merge \/ rebase_apply)
    /\ NumOp("amend") - NumOp("continue") \in {0, 1}

C1_Witness ==
    /\ NumOp("amend") >= 2 /\ NumOp("continue") >= 2
    /\ LastEv.op = "check" /\ ~LastEv.ok

\* C2: a failed amend or continue is the last step of the run: the run is
\* over with a non-zero exit code, success is not reported, nothing is
\* enabled any more, the commits amended so far keep their new author and
\* every step taken is one of the steps of entry() (no abort, no rollback).
C2_FailedIsTerminal ==
    \A i \in DOMAIN trace :
        (trace[i].op \in {"amend", "continue"} /\ ~trace[i].ok) =>
            /\ i = Len(trace)
            /\ pc = "done"
            /\ exit \notin {-1, 0}
            /\ SUCCESS_MSG \notin msgs
            /\ ~ENABLED Next
            /\ \A k \in 1..Len(amended) : authors[amended[k]] = author
            /\ \A j \in DOMAIN trace : Rank(trace[j].op) # 0

C2_Witness ==
    /\ outcome = "amend_fail"
    /\ NumOp("continue") >= 1
    /\ rebase_merge

\* C3: success is printed only by a check that found neither sentinel
\* directory, and a check that returned false is the last step of the run.
C3_CompletedOnlyWhenNoSentinel ==
    /\ (SUCCESS_MSG \in msgs) =>
          /\ outcome = "completed"
          /\ LastEv = Ev("check", FALSE, <<>>)
          /\ ~rebase_merge /\ ~rebase_apply
    /\ outcome = "completed" => SUCCESS_MSG \in msgs
    /\ \A i \in DOMAIN trace :
          (trace[i].op = "check" /\ ~trace[i].ok) => (i = Len(trace) /\ pc = "done")

C3_Witness ==
    /\ outcome = "completed"
    /\ Len(amended) >= 1
    /\ todo = <<>>

\* C4: in auto mode with N commits the loop never runs more than N + 1
\* checks, and a run in which the rebase started and no amend or continue
\* failed ends after exactly N amends (commits 1..N in order) and N
\* continues with success reported and exit code 0.
C4_AutoModeAmendsEveryCommit ==
    LET N == Len(authors) IN
    (~args.manual /\ Happened("rebase_start", TRUE)) =>
        /\ NumOp("check") <= N + 1
        /\ NumOp("amend") <= N
        /\ amended = [i \in 1..Len(amended) |-> i]
        /\ (pc = "done" /\ ~Happened("amend", FALSE) /\ ~Happened("continue", FALSE)) =>
              /\ Len(amended) = N
              /\ NumOp("amend") = N /\ NumOp("continue") = N
              /\ \A i \in 1..N : authors[i] = author
              /\ LastEv = Ev("check", FALSE, <<>>)
              /\ SUCCESS_MSG \in msgs
              /\ exit = 0

C4_Witness ==
    /\ ~args.manual
    /\ pc = "done" /\ exit = 0
    /\ Len(authors) >= 2
    /\ Len(amended) = Len(authors)

\* C5: the steps of a run are taken in the order of entry(), none skipped
\* and none repeated before the loop; a failed step is the last step and the
\* exit code is then non-zero; a loop step is preceded by a successful
\* rebase start.
C5_FixedOrderFailStop ==
    /\ trace # <<>> /\ IsRunMode(args) => Rank(trace[1].op) = 1
    /\ \A i \in 1..(Len(trace) - 1) :
          IsRunMode(args) =>
              \/ Rank(trace[i + 1].op) = Rank(trace[i].op) + 1
              \/ Rank(trace[i].op) = 12 /\ Rank(trace[i + 1].op) = 12
    /\ \A i \in DOMAIN trace :
          IsFailure(trace[i]) => (i = Len(trace) /\ pc = "done" /\ exit \notin {-1, 0})
    /\ \A i \in DOMAIN trace :
          trace[i].op \in LoopOps =>
              \E j \in 1..(i - 1) : trace[j] = Ev("rebase_start", TRUE, <<>>)

C5_Witness ==
    /\ outcome = "start_fail"
    /\ LastEv = Ev("rebase_start", FALSE, <<>>)
    /\ rebase_merge
    /\ cfg # cfg0

\* C6: a finished run has exit code 0 exactly when no step failed and the
\* sequence editor was not invoked without a path, and then its return site
\* is one of the successful ones; otherwise the exit code is 1.
C6_ExitCodes ==
    LET AnyFailure == \/ \E i \in DOMAIN trace : IsFailure(trace[i])
                      \/ IsSeqMode(args) /\ args.seq = "nopath"
    IN
    /\ pc # "done" => exit = -1
    /\ pc = "done" =>
          /\ exit \in {0, 1}
          /\ exit = 0 <=> ~AnyFailure
          /\ exit = 0 <=> outcome \in {"help", "version", "seq_ok", "no_change",
                                       "cancelled", "completed"}
          /\ exit = 1 <=> outcome \in {"env_fail", "prompt_fail", "config_fail",
                                       "start_fail", "amend_fail", "continue_fail",
                                       "seq_fail"}

C6_Witness ==
    /\ outcome = "seq_fail"
    /\ exit = 1
    /\ LastEv = Ev("write", FALSE, <<>>)

\* C7: when the user declines the confirmation the run exits 0 with no
\* rebase started, no commit amended and user.name / user.email as before.
C7_DeclineChangesNothing ==
    outcome = "cancelled" =>
        /\ exit = 0
        /\ ~Happened("rebase_start", TRUE) /\ ~Happened("rebase_start", FALSE)
        /\ amended = <<>>
        /\ \A i \in DOMAIN authors : authors[i] = OldAuthor
        /\ cfg = cfg0

\* C8: when both typed values equal the defaults after trimming, the run
\* ends right after the email prompt with exit code 0, the configuration
\* and the commits untouched.
C8_NoChangeEarlyExit ==
    (Happened("ask_email", TRUE)
       /\ trim(Typed("ask_name")) = trim(default_name)
       /\ trim(Typed("ask_email")) = trim(default_email)) =>
        /\ pc = "done" /\ outcome = "no_change" /\ exit = 0
        /\ LastEv.op = "ask_email"
        /\ cfg = cfg0
        /\ amended = <<>>
        /\ \A i \in DOMAIN authors : authors[i] = OldAuthor

C8_Witness ==
    /\ outcome = "no_change"
    /\ Typed("ask_name") # default_name
    /\ default_name # <<>>

\* C9: after a successful rewrite no pick line is left in the file and the
\* number of edit lines is the number of edit lines plus the number of pick
\* lines of the file as it was.
C9_EveryPickBecomesEdit ==
    outcome = "seq_ok" =>
        LET inL == lines(file0.content)
            outL == lines(todo_file.content)
        IN /\ CountPick(outL) = 0
           /\ CountEdit(outL) = CountEdit(inL) + CountPick(inL)

C9_Witness ==
    /\ outcome = "seq_ok"
    /\ CountPick(lines(file0.content)) = 2
    /\ CountEdit(lines(todo_file.content)) = 2

\* C10: for a pick line, the result of transform_line has the length of the
\* line, carries e, d, i, t where the line carries p, i, c, k and equals the
\* line everywhere else.
C10_PickLineKeywordOnly ==
    (pc = "line_done" /\ StartsWith(trim_start(line), PICK_SP)) =>
        LET w == LeadingWs(line) IN
        /\ Len(line_out) = Len(line)
        /\ SubSeq(line_out, w + 1, w + 4) = <<"e", "d", "i", "t">>
        /\ \A i \in 1..Len(line) : i \notin (w + 1)..(w + 4) => line_out[i] = line[i]

C10_Witness ==
    /\ pc = "line_done"
    /\ line = <<TAB, SP>> \o PICK_SP \o <<"a", SP>>
    /\ line_out = <<TAB, SP>> \o EDIT_SP \o <<"a", SP>>

Terminated(ls) == Concat([i \in 1..Len(ls) |-> ls[i] \o <<NL>>])

\* a line that is a comment or an exec command
IsCommentOrExec(l) ==
    IsComment(l) \/ StartsWith(trim_start(l), <<"e", "x", "e", "c", SP>>)

OnlyCommentOrExec(content) ==
    \A i \in DOMAIN lines(content) : IsCommentOrExec(lines(content)[i])

\* the content with a "\n" appended when it does not end in one
WithFinalNewline(content) ==
    IF content # <<>> /\ content[Len(content)] = NL THEN content ELSE content \o <<NL>>

\* the written content is the transformed lines of the input, in order, each
\* followed by one "\n"; an empty input gives exactly "\n"
C12_LinesRejoined ==
    LET inL == lines(file0.content)
        out == todo_file.content
    IN /\ inL # <<>> => out = Terminated([i \in 1..Len(inL) |-> transform_line(inL[i])])
       /\ inL = <<>> => out = <<NL>>
       /\ file0.content = <<>> => out = <<NL>>

\* C12 as stated: the rejoined lines, and a file of comment and exec lines
\* only keeps its content but for a final newline
C12_AsClaimed ==
    outcome = "seq_ok" =>
        /\ C12_LinesRejoined
        /\ OnlyCommentOrExec(file0.content) =>
              todo_file.content = WithFinalNewline(file0.content)

\* C12 (amended): the rejoined lines, and a file of comment and exec lines
\* only keeps its lines, every line ending written as a single "\n"
C12_Amended ==
    outcome = "seq_ok" =>
        /\ C12_LinesRejoined
        /\ OnlyCommentOrExec(file0.content) =>
              todo_file.content = WithFinalNewline(join(lines(file0.content), <<NL>>))

C12_Witness ==
    /\ outcome = "seq_ok"
    /\ file0.content = <<"#", SP>> \o PICK_SP \o <<"d", CR, NL>>
    /\ todo_file.content = <<"#", SP>> \o PICK_SP \o <<"d", NL>>

(* ---------------------------- C13 --------------------------------------- *)
\* the steps of the run so far, by name
Ops == [i \in DOMAIN trace |-> trace[i].op]

\* what a sequence-editor run does: file steps only, nothing of the
\* repository touched; without a path it fails at once, with a path it ends
\* with 0 exactly when the file was rewritten
SequenceEditorContract ==
    /\ \A i \in DOMAIN trace : trace[i].op \in {"read", "create", "write"}
    /\ cfg = cfg0 /\ authors = <<OldAuthor>> /\ amended = <<>>
    /\ ~rebase_merge /\ ~rebase_apply
    /\ pc = "done" =>
        /\ exit \in {0, 1}
        /\ args.seq = "nopath" =>
              /\ exit = 1
              /\ msgs = {"missing todo file path"}
              /\ trace = <<>>
              /\ todo_file = file0
        /\ args.seq = "path" =>
              /\ exit = 0 <=> outcome = "seq_ok"
              /\ exit = 0 =>
                    /\ Ops = <<"read", "create", "write">>
                    /\ todo_file.content = transformed(file0.content)
              /\ exit = 1 => outcome = "seq_fail"

HasSpace(s) == \E i \in DOMAIN s : s[i] = SP

\* the executable's path, in double quotes when it has a space, then the flag
EditorCommand(path) ==
    (IF HasSpace(path) THEN <<QUOTE>> \o path \o <<QUOTE>> ELSE path)
        \o <<SP>> \o <<"-", "-", "s", "e", "q", "u", "e", "n", "c", "e", "-",
                        "e", "d", "i", "t", "o", "r">>

\* GIT_SEQUENCE_EDITOR is set on a step's command exactly when the step is
\* the rebase start of an auto-mode run; no other command, amend and continue
\* included, and not the tool's own environment, carries it
EditorOverrideScope ==
    /\ Len(envs) = Len(trace)
    /\ proc_env = <<>>
    /\ \A i \in DOMAIN trace :
         envs[i] # <<>> <=> (trace[i].op = "rebase_start" /\ ~args.manual)

\* C14: GIT_SEQUENCE_EDITOR is set on the rebase start exactly in auto mode
\* and on nothing else, and its value is the current executable's path
\* (quoted if it has a space) followed by " --sequence-editor"
C14_EditorOverrideScoped ==
    /\ EditorOverrideScope
    /\ \A i \in DOMAIN trace :
         (trace[i].op = "rebase_start" /\ ~args.manual) => envs[i] = EditorCommand(exe)

C14_Witness ==
    /\ ~args.manual /\ HasSpace(exe)
    /\ \E i, j, k \in DOMAIN trace :
         /\ trace[i].op = "rebase_start" /\ envs[i][1] = QUOTE
         /\ trace[j].op = "amend" /\ envs[j] = <<>>
         /\ trace[k].op = "continue" /\ envs[k] = <<>>

(* ---------------------------- C15 --------------------------------------- *)
\* "<name> <<email>>" of the trimmed prompt results
PromptedAuthor ==
    trim(Typed("ask_name")) \o <<SP, "<">> \o trim(Typed("ask_email")) \o <<">">>

\* C15: from the start of the loop on the author identity is the string
\* "<name> <<email>>" of the whitespace-trimmed prompt results, and every
\* amend of the run is invoked with that one string
C15_AuthorFixed ==
    /\ pc \in {"loop_check", "amend", "continue"} => author = PromptedAuthor
    /\ \A i \in DOMAIN trace : trace[i].op = "amend" => trace[i].arg = PromptedAuthor
    /\ \A k \in DOMAIN amended : authors[amended[k]] = PromptedAuthor

C15_Witness ==
    /\ NumOp("amend") >= 2
    /\ Typed("ask_name") # trim(Typed("ask_name"))
    /\ Typed("ask_email") # trim(Typed("ask_email"))
    /\ \A i \in DOMAIN trace : trace[i].op = "amend" => trace[i].arg = PromptedAuthor

(* ---------------------------- C16 --------------------------------------- *)
\* what git keeps on disk: config, history, rebase state
RepoState == <<cfg, authors, todo, head, rebase_merge, rebase_apply>>

\* the steps that run a git command
GitOps == {"rev_parse_toplevel", "rev_parse_git_dir", "config_get_name",
           "config_get_email", "config_set_name", "config_set_email",
           "rebase_start", "amend", "continue"}

\* this step logged one of `ops`
StepIn(ops) ==
    /\ Len(trace') = Len(trace) + 1
    /\ trace'[Len(trace')].op \in ops

\* C16 as stated: in both roles, every change of the repository's on-disk
\* state, the todo file git keeps under .git included, is made by a step
\* that runs git
C16_AsClaimed ==
    [][<<RepoState, todo_file>>' # <<RepoState, todo_file>> => StepIn(GitOps)]_vars

\* C16: config, history and rebase state change only in steps that run git;
\* the todo file is changed by the tool itself, in Sequence-Editor Mode
\* only, by the create and write steps of rewrite()
C16_GitOnlyExceptTodoFile ==
    [][/\ RepoState' # RepoState => StepIn(GitOps)
       /\ todo_file' # todo_file => (IsSeqMode(args) /\ StepIn({"create", "write"}))]_vars

C16_Witness ==
    /\ outcome = "seq_ok"
    /\ todo_file # file0
    /\ RepoState = <<cfg0, <<OldAuthor>>, <<>>, 0, FALSE, FALSE>>

(* ---------------------------- C18 --------------------------------------- *)
\* s without its leading and trailing whitespace: from the first to the last
\* character that is not whitespace
Stripped(s) ==
    LET keep == {i \in DOMAIN s : ~IsWhitespace(s[i])} IN
    IF keep = {} THEN <<>>
    ELSE SubSeq(s, CHOOSE i \in keep : \A j \in keep : i <= j,
                   CHOOSE i \in keep : \A j \in keep : i >= j)

Called(f) == pc = "fn_done" /\ fn_in.fn = f

\* C18: should_exit_no_change returns true exactly when the names are equal
\* after trimming and the emails are equal after trimming; it returns false
\* when either pair differs, also when only one of them does
C18_NoChangeIffBothEqual ==
    Called("should_exit_no_change") =>
        LET a == fn_in.arg
            same_name == Stripped(a.name) = Stripped(a.default_name)
            same_email == Stripped(a.email) = Stripped(a.default_email)
        IN /\ fn_out \in BOOLEAN
           /\ fn_out <=> (same_name /\ same_email)
           /\ (~same_name \/ ~same_email) => fn_out = FALSE

C18_Witness ==
    /\ Called("should_exit_no_change")
    /\ fn_in.arg = [name |-> <<SP, "a">>, default_name |-> <<"a", SP>>,
                    email |-> <<"a">>, default_email |-> <<"a", "a">>]
    /\ fn_out = FALSE

(* ---------------------------- C19 --------------------------------------- *)
\* C19: build_sequence_editor_env returns the path in double quotes followed
\* by " --sequence-editor" exactly when the path has a space character, and
\* otherwise the bare path followed by one space and "--sequence-editor"
C19_QuotedIffSpace ==
    Called("build_sequence_editor_env") =>
        LET p == fn_in.arg
            flag == <<"-", "-", "s", "e", "q", "u", "e", "n", "c", "e", "-",
                      "e", "d", "i", "t", "o", "r">>
            quoted == <<QUOTE>> \o p \o <<QUOTE, SP>> \o flag
            bare == p \o <<SP>> \o flag
        IN /\ fn_out = quoted <=> HasSpace(p)
           /\ ~HasSpace(p) => fn_out = bare

C19_Witness ==
    /\ Called("build_sequence_editor_env")
    /\ fn_in.arg = <<"/", SP, "g">>
    /\ fn_out[1] = QUOTE /\ fn_out[5] = QUOTE /\ Len(fn_out) = 23

(* ---------------------------- C20 --------------------------------------- *)
\* C20: rebase_in_progress returns true exactly when rebase-merge or
\* rebase-apply exists under the git directory, false when neither does,
\* whatever else the directory holds
C20_InProgressIffSentinel ==
    Called("rebase_in_progress") =>
        /\ fn_out \in BOOLEAN
        /\ fn_out <=> (fn_in.arg \cap {"rebase-merge", "rebase-apply"} # {})

C20_Witness ==
    /\ Called("rebase_in_progress")
    /\ fn_in.arg = {"rebase-apply", "HEAD"}
    /\ fn_out = TRUE

(* ---------------------------- C17 --------------------------------------- *)
\* the children that have not exited
Alive == {i \in DOMAIN children : children[i].state # "exited"}

\* what the orchestrator itself holds: its position, results and output
Orchestrator == <<pc, exit, outcome, msgs, trace, local_vars>>

\* C17: at most one child of the orchestrator is alive at any time, the
\* orchestrator takes no step while one is running, and in auto mode the
\* sequence editor git started has finished rewriting the todo file before
\* the first progress check or amend
C17_SequentialBlocking ==
    /\ [](/\ Cardinality(Alive) <= 1
          /\ Alive # {} => pc \in {"rebase_wait", "amend_wait", "continue_wait"}
          /\ editor = "running" => (Alive # {} /\ pc = "rebase_wait")
          /\ (~args.manual /\ (pc \in {"loop_check", "amend", "amend_wait"}
                                \/ NumOp("check") + NumOp("amend") > 0)) =>
                /\ editor = "done"
                /\ todo_file.content = transformed(GitTodo(Len(authors))))
    /\ [][Alive # {} => Orchestrator' = Orchestrator]_vars

C17_Witness ==
    /\ ~args.manual
    /\ editor = "done"
    /\ NumOp("check") >= 2 /\ NumOp("amend") >= 1
    /\ Len(children) = 3 /\ Alive = {}
    /\ children[1].cmd = "rebase" /\ children[1].env # <<>>

(* ---------------------------- C21 --------------------------------------- *)
\* the run ended in an error of rewrite() at the step `op`
RewriteFailedAt(op) ==
    outcome = "seq_fail" /\ trace # <<>> /\ LastEv.op = op /\ ~LastEv.ok

\* C21: a failed read is reported as "read failed: <cause>", a failed create
\* or write as "create failed: <cause>" or "write failed: <cause>", never the
\* one as the other; after a failed read nothing was created or truncated:
\* the file is as it was, and a path that did not exist still does not
C21_ReadFailureLeavesFile ==
    /\ RewriteFailedAt("read") =>
          /\ \E e \in {"not found", "permission denied", "invalid data"} :
                msgs = {"read failed: " \o e}
          /\ ~file0.exists => msgs = {"read failed: not found"}
          /\ Ops = <<"read">>
          /\ todo_file = file0
    /\ RewriteFailedAt("create") =>
          /\ msgs = {"create failed: permission denied"}
          /\ Ops = <<"read", "create">>
    /\ RewriteFailedAt("write") =>
          /\ msgs = {"write failed: no space left"}
          /\ Ops = <<"read", "create", "write">>

C21_Witness ==
    /\ RewriteFailedAt("read")
    /\ ~file0.exists /\ ~todo_file.exists
    /\ msgs = {"read failed: not found"}

(* ---------------------------- C22 --------------------------------------- *)
IsProperPrefix(p, s) == Len(p) < Len(s) /\ SubSeq(s, 1, Len(p)) = p

\* C22: between the create and the write the file is empty and its original
\* content is held in memory only; a run that stops there, or whose write
\* fails, leaves a file that holds less than the transformed content, and
\* nothing puts the original content back
C22_TruncatedBeforeWritten ==
    /\ pc = "rewrite_write" =>
          /\ todo_file = [exists |-> TRUE, content |-> <<>>]
          /\ body = file0.content
    /\ RewriteFailedAt("write") =>
          /\ IsProperPrefix(todo_file.content, transformed(file0.content))
          /\ Ops = <<"read", "create", "write">>
          /\ exit = 1

C22_Witness ==
    /\ RewriteFailedAt("write")
    /\ file0.content = PICK_SP \o <<"a", NL>>
    /\ todo_file.content = <<>>

(* ---------------------------- C23 --------------------------------------- *)
\* the result of the first progress check of the run
FirstCheck == trace[CHOOSE i \in DOMAIN trace :
                      /\ trace[i].op = "check"
                      /\ \A j \in 1..(i - 1) : trace[j].op # "check"]

\* C23: when the rebase start succeeded and the first progress check finds
\* neither sentinel, the run is over: success message, exit code 0, no amend
\* and no continue, every commit with the author it had
C23_NothingToAmend ==
    (Happened("rebase_start", TRUE) /\ NumOp("check") >= 1 /\ ~FirstCheck.ok) =>
        /\ pc = "done" /\ exit = 0 /\ outcome = "completed"
        /\ SUCCESS_MSG \in msgs
        /\ NumOp("check") = 1
        /\ NumOp("amend") = 0 /\ NumOp("continue") = 0
        /\ amended = <<>>
        /\ \A i \in DOMAIN authors : authors[i] = OldAuthor

C23_Witness ==
    /\ args.manual
    /\ Happened("rebase_start", TRUE) /\ NumOp("check") = 1 /\ ~FirstCheck.ok
    /\ exit = 0 /\ SUCCESS_MSG \in msgs
    /\ Len(authors) = 2 /\ amended = <<>>

(* ---------------------------- C24 --------------------------------------- *)
\* C24: user.email is only set after user.name was set; when setting
\* user.name fails, user.email is not attempted and the config is as before;
\* when setting user.email fails, the run ends non-zero with user.name at
\* its new value, user.email at its old one, and no rebase started
C24_ConfigUpdateNotAtomic ==
    /\ \A i \in DOMAIN trace : trace[i].op = "config_set_email" =>
          \E j \in 1..(i - 1) : trace[j].op = "config_set_name" /\ trace[j].ok
    /\ Happened("config_set_name", FALSE) =>
          /\ pc = "done" /\ exit = 1
          /\ cfg = cfg0
          /\ NumOp("config_set_email") = 0
          /\ NumOp("rebase_start") = 0
    /\ Happened("config_set_email", FALSE) =>
          /\ pc = "done" /\ exit = 1
          /\ cfg.name = trim(Typed("ask_name"))
          /\ cfg.email = cfg0.email
          /\ NumOp("confirm") = 0 /\ NumOp("rebase_start") = 0
          /\ amended = <<>>

C24_Witness ==
    /\ Happened("config_set_email", FALSE)
    /\ exit = 1
    /\ cfg.name # cfg0.name /\ cfg.email = cfg0.email
    /\ trim(Typed("ask_email")) # cfg0.email

(* ---------------------------- C25 --------------------------------------- *)
\* no line of the content, its "\n" or "\r\n" ending taken off, ends in "\r"
NoTrailingCR(content) ==
    \A i \in DOMAIN lines(content) :
        LET l == lines(content)[i] IN l = <<>> \/ l[Len(l)] # CR

\* C25 as stated: transform_line applied to its own result changes nothing,
\* and so does rewrite() applied to the file it has written, for every
\* initial content
C25_AsClaimed ==
    (Called("transform_line") \/ Called("rewrite")) => fn_out[2] = fn_out[1]

\* C25: transform_line applied to its own result changes nothing for every
\* line; rewrite() applied to the file it has written changes nothing when
\* no line of the initial content ends in a carriage return of its own
C25_Idempotent ==
    /\ Called("transform_line") => fn_out[2] = fn_out[1]
    /\ (Called("rewrite") /\ NoTrailingCR(fn_in.arg)) => fn_out[2] = fn_out[1]

C25_Witness ==
    /\ Called("rewrite")
    /\ fn_in.arg = <<NL>> \o PICK_SP \o <<"a">>
    /\ fn_out[1] = <<NL>> \o EDIT_SP \o <<"a", NL>>
    /\ fn_out[2] = fn_out[1]

====
